---- MODULE Spec2Model ----
(***************************************************************************)
(* The checklist prompt of glint (src/prompt/files_prompt.rs) and the      *)
(* frame buffer it draws with.  One action per iteration of the loop of    *)
(* FilesPrompt::run: the event read, its match arm, and the rebuild,       *)
(* render and flush that follow it.                                        *)
(*                                                                         *)
(* Vec indices are 1-based here: self.checked[i - 1] is checked[i].        *)
(***************************************************************************)
EXTENDS Integers, Sequences, FiniteSets, TLC

\* ------------------------------------------------------------- bounds

\* Largest number of files the provider returns in Spec.
MaxFiles == 3

\* Number of input events one run reads (caps the counters).
MaxEvents == 5

\* Number of input events a run over a status wider than a u16 reads.
WideEvents == 3

\* Number of input events a run over a status longer than the display cap
\* reads.
TallEvents == 14

\* Height of the banner block the figlet font produces.
FigletHeight == 2

\* Longest frame the frame-buffer driver builds.
MaxLines == 4

\* Number of frames the frame-buffer driver flushes.
MaxFlushes == 3

\* ---------------------------------------------------------- constants

\* focused_index: u16
U16 == 65536

\* let max = 15;
max == 15

\* ------------------------------------------------------------ git.rs

\* .collect(): the Vec of the elements f[1], ..., f[n], held as a tuple.
Vec(f) == f \o <<>>

GitStatusType == {"Added", "Modified", "Renamed", "Untracked", "Deleted", "None"}

\* The i-th row of the provider: distinct file names, not in name order.
NameOf(i) == IF i % 2 = 1 THEN i + 1 ELSE i - 1

UnstagedOf(i) ==
    CASE i % 4 = 1 -> "Untracked"
      [] i % 4 = 2 -> "Modified"
      [] i % 4 = 3 -> "Deleted"
      [] OTHER     -> "Nil"

\* GitStatusItem { file_name, staged, unstaged }; "Nil" is Option::None.
GitStatusItem(name, unstaged) == [file_name |-> name, unstaged |-> unstaged]

\* GitStatusItem::new("<all>"): the name 0 stands for "<all>".
AllItem == GitStatusItem(0, "Nil")

\* A GitStatus of n rows, as Git::status collects them.
GitStatus(n) == Vec([i \in 1..n |-> GitStatusItem(NameOf(i), UnstagedOf(i))])

\* GitStatusItem::status: self.unstaged.as_ref().unwrap_or(&None)
status(item) == IF item.unstaged = "Nil" THEN "None" ELSE item.unstaged

\* impl Into<String> for &GitStatusItem: self.file_name().into()
IntoString(item) == item.file_name

\* ------------------------------------------------------- frame buffer

\* A display line: what it is, its text or number, and its styling.
Line(kind, n, checked, color, glyph) ==
    [kind |-> kind, n |-> n, checked |-> checked, color |-> color, glyph |-> glyph]

\* A line position whose content was cleared.
Blank == Line("blank", 0, FALSE, "none", " ")

\* TermBuffer::new()
NewBuffer == [previous |-> <<>>, pending |-> <<>>, cursor |-> <<0, 0>>, ops |-> <<>>]

\* The terminal device before anything is written.
NewTerminal == [lines |-> <<>>, cursor |-> <<0, 0>>]

\* begin(): discards the partially built pending frame.
Begin(b) == [b EXCEPT !.pending = <<>>]

\* push_line / append_line
PushLine(b, l) == [b EXCEPT !.pending = Append(@, l)]

PushLines(b, ls) == [b EXCEPT !.pending = @ \o ls]

\* lines() / pending_line_count()
lines(b) == Len(b.pending)

\* set_next_cursor / set_cursor_target
SetNextCursor(b, c) == [b EXCEPT !.cursor = c]

Max2(a, b) == IF a >= b THEN a ELSE b

\* DiffOp with the comparison of the two lines left out: a line present in
\* both frames is always overwritten.
DiffOp_AlwaysWrite(prev, pend, i) ==
    IF i <= Len(prev) /\ i <= Len(pend)
    THEN [op |-> "overwrite", line |-> i, text |-> pend[i]]
    ELSE IF i <= Len(pend)
         THEN [op |-> "append", line |-> i, text |-> pend[i]]
         ELSE [op |-> "clear", line |-> i, text |-> Blank]

\* DiffOp with nothing done for a line only the previous frame has: the
\* line is left as it is on the terminal.
DiffOp_NoClear(prev, pend, i) ==
    IF i <= Len(prev) /\ i <= Len(pend)
    THEN IF prev[i] = pend[i]
         THEN [op |-> "keep", line |-> i, text |-> pend[i]]
         ELSE [op |-> "overwrite", line |-> i, text |-> pend[i]]
    ELSE IF i <= Len(pend)
         THEN [op |-> "append", line |-> i, text |-> pend[i]]
         ELSE [op |-> "keep", line |-> i, text |-> Blank]

\* The operation render() computes for line index i.
DiffOp(prev, pend, i) ==
    IF i <= Len(prev) /\ i <= Len(pend)
    THEN IF prev[i] = pend[i]
         THEN [op |-> "keep", line |-> i, text |-> pend[i]]
         ELSE [op |-> "overwrite", line |-> i, text |-> pend[i]]
    ELSE IF i <= Len(pend)
         THEN [op |-> "append", line |-> i, text |-> pend[i]]
         ELSE [op |-> "clear", line |-> i, text |-> Blank]

IsWrite(o) == o.op # "keep"

\* render_frame / render(): the line-level diff of previous and pending.
RenderFrame(b) ==
    LET n == Max2(Len(b.previous), Len(b.pending))
        all == [i \in 1..n |-> DiffOp(b.previous, b.pending, i)]
    IN [b EXCEPT !.ops = SelectSeq(all, IsWrite)]

\* The operations of a batch that write line position j, as indices.
WritesTo(ops, j) == {k \in 1..Len(ops) : ops[k].line = j}

\* The greatest of a non-empty set of numbers.
Greatest(S) == CHOOSE m \in S : \A x \in S : x <= m

\* The batch written to the terminal's lines, operation after operation: a
\* position holds the text of the last operation on it, a position no
\* operation names keeps its line, and a position the terminal did not have
\* before starts blank.
ApplyOps(ls, ops) ==
    LET n == Greatest({Len(ls)} \cup {ops[k].line : k \in 1..Len(ops)})
    IN Vec([j \in 1..n |->
               IF WritesTo(ops, j) # {}
               THEN ops[Greatest(WritesTo(ops, j))].text
               ELSE IF j <= Len(ls) THEN ls[j] ELSE Blank])

\* FlushTerminal without the final move of the cursor.
FlushTerminal_NoCursor(b, t) ==
    [lines |-> ApplyOps(t.lines, b.ops), cursor |-> t.cursor]

\* flush(), the terminal's side: the batch is written, then the cursor moved.
FlushTerminal(b, t) ==
    [lines |-> ApplyOps(t.lines, b.ops), cursor |-> b.cursor]

\* FlushBuffer that promotes pending and does not clear it.
FlushBuffer_KeepPending(b) ==
    [b EXCEPT !.previous = b.pending, !.ops = <<>>]

\* flush(), the buffer's side: pending becomes previous and is cleared.
FlushBuffer(b) ==
    [b EXCEPT !.previous = b.pending, !.pending = <<>>, !.ops = <<>>]

\* ------------------------------------------------------ files_prompt.rs

VARIABLES
    self,            \* the FilesPrompt: options, checked, focused_index
    first_iteration, \* let mut first_iteration
    result,          \* what run() returned, or Running
    buffer,          \* let mut buffer = TermBuffer::new()
    terminal,        \* the terminal device the buffer writes to
    overflow_checks, \* the build panics on integer overflow (debug profile)
    diff_call,       \* the last call of git.diff_less and its outcome
    nevents,         \* input events read so far
    nflush,          \* flushes so far
    target,          \* the last position given to set_next_cursor
    ndiff,           \* diff viewer invocations so far
    nredraw,         \* Space, 'd', Up and Down events read so far
    event,           \* the event the last step handled
    pre,             \* the state before the last step
    bphase           \* the driver of the frame buffer: build or rendered

\* The prompt's own state, which the frame buffer never touches.
promptVars == <<self, first_iteration, result, overflow_checks, diff_call,
                nevents, ndiff, nredraw>>

vars == <<self, first_iteration, result, buffer, terminal, overflow_checks,
          diff_call, nevents, nflush, target, ndiff, nredraw, event, pre,
          bphase>>

\* self.options: GitStatus
options == self.options

\* self.checked: Vec<bool>
checked == self.checked

\* self.focused_index: u16
focused_index == self.focused_index

Running == [tag |-> "Running", files |-> <<>>]
Terminate == [tag |-> "Terminate", files |-> <<>>]
Escape == [tag |-> "Escape", files |-> <<>>]
Files(selected) == [tag |-> "Files", files |-> selected]
Panic == [tag |-> "Panic", files |-> <<>>]

\* Key and mouse events no arm of the match names.
OtherEvents == {"Char_x", "Mouse"}

\* The events whose arm falls through to the rebuild (lines 61-87, 102-115).
RedrawEvents == {"Space", "d", "Up", "Down"}

\* The events whose arm returns (lines 58-60, 88-101).
ReturnEvents == {"CtrlC", "Enter", "Esc"}

\* The state a step starts from, the event before it, and the flags and
\* focus that event started from.
Snapshot ==
    [checked |-> checked, focused_index |-> focused_index, result |-> result, buffer |-> buffer, terminal |-> terminal,
     nevents |-> nevents, nflush |-> nflush, ndiff |-> ndiff, target |-> target,
     event |-> event, checked0 |-> pre.checked, focus0 |-> pre.focused_index]

Snapshot0(n) ==
    [checked |-> Vec([i \in 1..n |-> FALSE]), focused_index |-> 0,
     result |-> Running, buffer |-> NewBuffer, terminal |-> NewTerminal, nevents |-> 0, nflush |-> 0, ndiff |-> 0,
     event |-> "Start", checked0 |-> Vec([i \in 1..n |-> FALSE]), focus0 |-> 0]

\* FilesPrompt::new followed by the prologue of run().
InitPrompt(n, oc) ==
    /\ self = [options |-> GitStatus(n),
               checked |-> Vec([i \in 1..n |-> FALSE]),
               focused_index |-> 0]
    /\ first_iteration = TRUE
    /\ result = Running
    /\ buffer = NewBuffer
    /\ terminal = NewTerminal
    /\ overflow_checks = oc
    /\ diff_call = [files |-> <<>>, ok |-> TRUE]
    /\ nevents = 0
    /\ nflush = 0
    /\ target = <<0, 0>>
    /\ ndiff = 0
    /\ nredraw = 0
    /\ event = "Start"
    /\ pre = Snapshot0(n)
    /\ bphase = "build"

Init == \E n \in 0..MaxFiles : \E oc \in BOOLEAN : InitPrompt(n, oc)

All(chk) == \A i \in 1..Len(chk) : chk[i]

SatSub(a, b) == IF a >= b THEN a - b ELSE 0

\* ---- the frame of one iteration (lines 120-186)

\* figlet.create_vec() and write_to_buf_color("<glint>", ...)
header == Vec([i \in 1..FigletHeight |-> Line("figlet", i, FALSE, "Magenta", " ")])

\* push_line(""), push_line(prompt_pre), push_line(underscores)
instructions ==
    << Line("text", 0, FALSE, "none", " "),
       Line("prompt_pre", 0, FALSE, "none", " "),
       Line("underscores", 0, FALSE, "none", " ") >>

\* take without the padding: max rows are kept when there are more.
take_NoPadding(total) == IF total > max THEN max ELSE total

\* let take = if total > max { max - 3 } else { total };
take(total) == IF total > max THEN max - 3 ELSE total

StatusGlyph(item) ==
    CASE status(item) = "Untracked" -> "+"
      [] status(item) = "Modified"  -> "*"
      [] status(item) = "Deleted"   -> "-"
      [] OTHER                      -> " "

\* The row of index i of once(<all>).chain(options): i = 0 is <all>.
RowItem(opts, i) == IF i = 0 THEN AllItem ELSE opts[i]

\* One row line (lines 155-180).
RowLine(opts, chk, focus, i) ==
    LET line_color == IF i % U16 = focus THEN "Blue" ELSE "White"
        is_checked == IF i = 0 THEN All(chk) ELSE chk[i]
        item == RowItem(opts, i)
    IN [kind |-> "row", n |-> item.file_name, checked |-> is_checked,
        color |-> line_color, glyph |-> StatusGlyph(item)]

\* The row loop: .enumerate().take(take + 1)
RowLines(opts, chk, focus) ==
    Vec([j \in 1..(take(Len(opts)) + 1) |-> RowLine(opts, chk, focus, j - 1)])

\* if take < total { push_line("and {} more") }
MoreLines(opts) ==
    LET total == Len(opts)
    IN IF take(total) < total
       THEN << Line("more", total - take(total), FALSE, "none", " ") >>
       ELSE <<>>

\* y_offset without the lines above the rows.
y_offset_FocusOnly(b, focus) == focus % U16

\* let y_offset = buffer.lines() + self.focused_index;
y_offset(b, focus) == (lines(b) + focus) % U16

YOffsetOverflows(b, focus) == lines(b) + focus >= U16

\* Lines 120-188: the pending frame and its cursor target.
Rebuild(b, opts, chk, focus) ==
    LET b1 == PushLines(PushLines(b, header), instructions)
        y  == y_offset(b1, focus)
        b2 == PushLines(PushLines(b1, RowLines(opts, chk, focus)), MoreLines(opts))
    IN SetNextCursor(b2, <<0, y>>)

\* Lines 120-190 as a step: rebuild, render_frame, flush.
Redraw(chk, focus) ==
    IF overflow_checks
       /\ YOffsetOverflows(PushLines(PushLines(buffer, header), instructions), focus)
    THEN /\ result' = Panic
         /\ UNCHANGED <<buffer, terminal, nflush, target>>
    ELSE LET b == RenderFrame(Rebuild(buffer, options, chk, focus))
         IN /\ buffer' = FlushBuffer(b)
            /\ terminal' = FlushTerminal(b, terminal)
            /\ nflush' = nflush + 1
            /\ target' = b.cursor
            /\ UNCHANGED result

\* ---- the match arms (lines 57-118)

\* SpaceChecked with row 0 read as "invert every row".
SpaceChecked_Invert(chk, index) ==
    IF index = 0
    THEN Vec([i \in 1..Len(chk) |-> ~chk[i]])
    ELSE [chk EXCEPT ![index] = ~chk[index]]

\* SpaceChecked with a row set instead of negated.
SpaceChecked_SetOnly(chk, index) ==
    IF index = 0
    THEN IF ~All(chk)
         THEN Vec([i \in 1..Len(chk) |-> TRUE])
         ELSE Vec([i \in 1..Len(chk) |-> FALSE])
    ELSE [chk EXCEPT ![index] = TRUE]

\* The Space arm's new flags, for index = self.focused_index within range.
SpaceChecked(chk, index) ==
    IF index = 0
    THEN IF ~All(chk)
         THEN Vec([i \in 1..Len(chk) |-> TRUE])
         ELSE Vec([i \in 1..Len(chk) |-> FALSE])
    ELSE [chk EXCEPT ![index] = ~chk[index]]

\* DiffFiles that never names a file: every diff is the diff of all.
DiffFiles_All(opts, index) == <<>>

\* The 'd' arm's file list.
DiffFiles(opts, index) ==
    IF index = 0 THEN <<>> ELSE << opts[index].file_name >>

\* .enumerate(): each file with its flag
Enumerate(opts, chk) ==
    Vec([i \in 1..Len(opts) |-> [item |-> opts[i], keep |-> chk[i]]])

Kept(p) == p.keep

\* .map(Into::into).collect()
MapInto(kept) == Vec([j \in 1..Len(kept) |-> IntoString(kept[j].item)])

NotKept(p) == ~p.keep

\* Selected with the filter negated: the unchecked files are returned.
Selected_Unchecked(opts, chk) == MapInto(SelectSeq(Enumerate(opts, chk), NotKept))

\* The Enter arm's list: enumerate, keep the checked, map Into::into.
Selected(opts, chk) == MapInto(SelectSeq(Enumerate(opts, chk), Kept))

\* The Up arm.
UpFocus(focus) == IF focus = 0 THEN 0 ELSE SatSub(focus, 1)

\* DownFocus without the clamp at the last row.
DownFocus_NoClamp(focus, len) == (focus + 1) % U16

\* DownFocus clamped at total instead of total - 1.
DownFocus_ClampTotal(focus, len) ==
    LET total == ((len % U16) + 1) % U16
        f1 == (focus + 1) % U16
    IN IF f1 >= total THEN total ELSE f1

\* The Down arm, when no addition overflows or the build wraps.
DownFocus(focus, len) ==
    LET total == ((len % U16) + 1) % U16
        f1 == (focus + 1) % U16
    IN IF f1 >= total THEN SatSub(total, 1) ELSE f1

DownOverflows(focus, len) == (len % U16) + 1 >= U16 \/ focus + 1 >= U16

\* The number of events the model lets a run read.
EventCap ==
    IF Len(options) >= U16 - 1 THEN WideEvents
    ELSE IF Len(options) >= max - 1 THEN TallEvents
    ELSE MaxEvents

\* An event is read only by a running loop past its first iteration.
Reads ==
    /\ result = Running
    /\ ~first_iteration
    /\ nevents < EventCap

\* The event that makes run() return is the last one read: it is read
\* whatever the number of events before it.
ReadsLast ==
    /\ result = Running
    /\ ~first_iteration

Read(e) ==
    /\ event' = e
    /\ pre' = Snapshot
    /\ nevents' = nevents + 1
    /\ nredraw' = IF e \in RedrawEvents THEN nredraw + 1 ELSE nredraw

\* The first iteration: event = None, the frame is drawn before any read.
FirstIteration ==
    /\ result = Running
    /\ first_iteration
    /\ first_iteration' = FALSE
    /\ event' = "None"
    /\ pre' = Snapshot
    /\ Redraw(checked, focused_index)
    /\ UNCHANGED <<self, overflow_checks, diff_call,
                   nevents, ndiff, nredraw, bphase>>

\* sync_stdin.next() gave None: continue.  No event was read and nothing
\* changes, so the step leaves every variable as it was.
InputNone ==
    /\ result = Running
    /\ ~first_iteration
    /\ UNCHANGED vars

\* Some(Ctrl('c')) => return Terminate
KeyCtrlC ==
    /\ ReadsLast
    /\ Read("CtrlC")
    /\ result' = Terminate
    /\ UNCHANGED <<self, first_iteration, buffer,
                   terminal, overflow_checks, diff_call, nflush, target, ndiff,
                   bphase>>

\* Some(Char(' ')): the flags change, then the frame is redrawn.  An index
\* past the end of self.checked panics.
KeySpace ==
    /\ Reads
    /\ Read("Space")
    /\ IF focused_index > Len(checked)
       THEN /\ result' = Panic
            /\ UNCHANGED <<self, buffer, terminal, nflush, target>>
       ELSE /\ self' = [self EXCEPT !.checked = SpaceChecked(checked, focused_index)]
            /\ Redraw(checked', focused_index)
    /\ UNCHANGED <<first_iteration, overflow_checks, diff_call, ndiff, bphase>>

\* Some(Char('d')): diff_less is called and its Result dropped (let _r),
\* then the frame is redrawn.  No file at the index: expect() panics.
KeyD ==
    /\ Reads
    /\ Read("d")
    /\ IF focused_index > Len(options)
       THEN /\ result' = Panic
            /\ UNCHANGED <<diff_call, ndiff, buffer, terminal, nflush, target>>
       ELSE /\ \E ok \in BOOLEAN :
                 diff_call' = [files |-> DiffFiles(options, focused_index), ok |-> ok]
            /\ ndiff' = ndiff + 1
            /\ Redraw(checked, focused_index)
    /\ UNCHANGED <<self, first_iteration,
                   overflow_checks, bphase>>

\* The Enter arm without its return: the event is dropped like an unnamed one.
KeyEnter_Continues ==
    /\ Reads
    /\ Read("Enter")
    /\ UNCHANGED <<self, first_iteration, result, buffer, terminal,
                   overflow_checks, diff_call, nflush, target, ndiff, bphase>>

\* Some(Enter) => return Files(selected)
KeyEnter ==
    /\ ReadsLast
    /\ Read("Enter")
    /\ result' = Files(Selected(options, checked))
    /\ UNCHANGED <<self, first_iteration, buffer,
                   terminal, overflow_checks, diff_call, nflush, target, ndiff,
                   bphase>>

\* The Esc arm returning what the Ctrl-C arm returns.
KeyEsc_Terminates ==
    /\ ReadsLast
    /\ Read("Esc")
    /\ result' = Terminate
    /\ UNCHANGED <<self, first_iteration, buffer,
                   terminal, overflow_checks, diff_call, nflush, target, ndiff,
                   bphase>>

\* Some(Esc) => return Escape
KeyEsc ==
    /\ ReadsLast
    /\ Read("Esc")
    /\ result' = Escape
    /\ UNCHANGED <<self, first_iteration, buffer,
                   terminal, overflow_checks, diff_call, nflush, target, ndiff,
                   bphase>>

\* The Up arm with the rebuild left out when the focus did not move.
KeyUp_SkipsUnchanged ==
    /\ Reads
    /\ Read("Up")
    /\ self' = [self EXCEPT !.focused_index = UpFocus(focused_index)]
    /\ IF focused_index' = focused_index
       THEN UNCHANGED <<result, buffer, terminal, nflush, target>>
       ELSE Redraw(checked, focused_index')
    /\ UNCHANGED <<first_iteration, overflow_checks, diff_call, ndiff, bphase>>

\* Some(Up)
KeyUp ==
    /\ Reads
    /\ Read("Up")
    /\ self' = [self EXCEPT !.focused_index = UpFocus(focused_index)]
    /\ Redraw(checked, focused_index')
    /\ UNCHANGED <<first_iteration, overflow_checks, diff_call, ndiff, bphase>>

\* Some(Down): "len as u16 + 1" and "focused_index += 1" panic on overflow
\* in a build with overflow checks and wrap in one without.
KeyDown ==
    /\ Reads
    /\ Read("Down")
    /\ IF overflow_checks /\ DownOverflows(focused_index, Len(options))
       THEN /\ result' = Panic
            /\ UNCHANGED <<self, buffer, terminal, nflush, target>>
       ELSE /\ self' = [self EXCEPT !.focused_index =
                                       DownFocus(focused_index, Len(options))]
            /\ Redraw(checked, focused_index')
    /\ UNCHANGED <<first_iteration, overflow_checks, diff_call, ndiff, bphase>>

\* The default arm as "_ => {}": it falls through to the rebuild.
KeyOther_Redraws ==
    /\ Reads
    /\ \E e \in OtherEvents : Read(e)
    /\ Redraw(checked, focused_index)
    /\ UNCHANGED <<self, first_iteration,
                   overflow_checks, diff_call, ndiff, bphase>>

\* _ => continue
KeyOther ==
    /\ Reads
    /\ \E e \in OtherEvents : Read(e)
    /\ UNCHANGED <<self, first_iteration, result,
                   buffer, terminal, overflow_checks, diff_call, nflush, target,
                   ndiff, bphase>>

Next ==
    \/ FirstIteration
    \/ InputNone
    \/ KeyCtrlC
    \/ KeySpace
    \/ KeyD
    \/ KeyEnter
    \/ KeyEsc
    \/ KeyUp
    \/ KeyDown
    \/ KeyOther

Spec == Init /\ [][Next]_vars

\* The same prompt over a status whose length does not fit focused_index's
\* u16: options.len() is a usize, and "as u16" keeps its low 16 bits.
InitWide == \E oc \in BOOLEAN : InitPrompt(U16 + 1, oc)

SpecWide == InitWide /\ [][Next]_vars

\* The same prompt over statuses about as long as the display cap and
\* longer, with an input source that delivers Up and Down.
TallFiles == {max - 1, max, max + 1, max + 5}

InitTall == \E n \in TallFiles : \E oc \in BOOLEAN : InitPrompt(n, oc)

NextTall ==
    \/ FirstIteration
    \/ InputNone
    \/ KeyUp
    \/ KeyDown

SpecTall == InitTall /\ [][NextTall]_vars

\* The prompt with an input source that, as long as the prompt reads,
\* does deliver one of the events that make it return.
SpecLive ==
    /\ Init
    /\ [][Next]_vars
    /\ WF_vars(KeyCtrlC \/ KeyEnter \/ KeyEsc)

\* ---- the frame buffer on its own: a caller that builds, renders and
\* flushes frames of any length, in the order the prompt calls it
\* (lines 120-190): lines and cursor target, then render, then flush.

\* The texts the caller's lines are drawn from.
TextPool == {1, 2}

TextLine(t) == Line("text", t, FALSE, "none", " ")

\* The cursor rows the caller asks for.
CursorRows == {0, 1}

InitBuf ==
    /\ InitPrompt(0, FALSE)

\* As many cleared lines as ls has lines.
Shape(ls) == Vec([i \in 1..Len(ls) |-> Blank])

\* What pre keeps of the state a flush starts from: the pending frame and
\* the cursor target as they are, and of the frame shown before only its
\* length.
FlushSnapshot ==
    [Snapshot EXCEPT !.event = "Start",
                     !.buffer.previous = Shape(@),
                     !.buffer.ops = <<>>,
                     !.terminal.lines = Shape(@)]

\* A call of the caller: e is "build" for begin, push_line and
\* set_next_cursor.  pre keeps the state the last render or flush started
\* from.
BufStep(e) ==
    /\ result = Running
    /\ first_iteration
    /\ nflush < MaxFlushes
    /\ event' = e
    /\ pre' = CASE e = "flush" -> FlushSnapshot
               [] e = "render_frame" -> [Snapshot EXCEPT !.event = "Start"]
               [] OTHER -> pre
    /\ UNCHANGED promptVars

BufBegin ==
    /\ bphase = "build"
    /\ buffer.pending # <<>>
    /\ BufStep("build")
    /\ buffer' = Begin(buffer)
    /\ UNCHANGED <<terminal, nflush, target, bphase>>

BufPushLine ==
    /\ bphase = "build"
    /\ lines(buffer) < MaxLines
    /\ BufStep("build")
    /\ \E t \in TextPool : buffer' = PushLine(buffer, TextLine(t))
    /\ UNCHANGED <<terminal, nflush, target, bphase>>

BufSetNextCursor ==
    /\ bphase = "build"
    /\ BufStep("build")
    /\ \E row \in CursorRows :
          /\ <<0, row>> # buffer.cursor
          /\ buffer' = SetNextCursor(buffer, <<0, row>>)
          /\ target' = <<0, row>>
    /\ UNCHANGED <<terminal, nflush, bphase>>

BufRenderFrame ==
    /\ bphase = "build"
    /\ BufStep("render_frame")
    /\ buffer' = RenderFrame(buffer)
    /\ bphase' = "rendered"
    /\ UNCHANGED <<terminal, nflush, target>>

BufFlush ==
    /\ bphase = "rendered"
    /\ BufStep("flush")
    /\ buffer' = FlushBuffer(buffer)
    /\ terminal' = FlushTerminal(buffer, terminal)
    /\ nflush' = nflush + 1
    /\ bphase' = "build"
    /\ UNCHANGED target

NextBuf ==
    \/ BufBegin
    \/ BufPushLine
    \/ BufSetNextCursor
    \/ BufRenderFrame
    \/ BufFlush

SpecBuf == InitBuf /\ [][NextBuf]_vars

\* ------------------------------------------------------------ claims

NumFiles == Len(options)

Unchecked(chk) == \E i \in 1..Len(chk) : ~chk[i]

NoneChecked(chk) == \A i \in 1..Len(chk) : ~chk[i]

\* The index of the j-th checked row, counting in provider order.
NthChecked(j) ==
    CHOOSE i \in 1..NumFiles :
        checked[i] /\ Cardinality({x \in 1..i : checked[x]}) = j

\* C1: a run that returned holds exactly one of Terminate, Escape and
\* Files(list): Terminate only after Ctrl-C, Escape only after Esc, Files only
\* after Enter; and every step is taken by a run that has not returned, so
\* after the return no event is read and nothing changes.
C1_OneOutcome ==
    /\ [](/\ result.tag \in {"Running", "Terminate", "Escape", "Files"}
          /\ (result.tag = "Terminate") = (event = "CtrlC")
          /\ (result.tag = "Escape") = (event = "Esc")
          /\ (result.tag = "Files") = (event = "Enter")
          /\ result.tag # "Files" => result.files = <<>>
          /\ result.tag # "Running" => pre.result = Running)
    /\ [][result = Running]_vars

C1_Witness ==
    /\ result.tag = "Files"
    /\ event = "Enter"
    /\ nevents >= 3
    /\ nflush >= 3

\* C2: after Enter the result is Files(list), and list is the file names of
\* the rows whose flag is true, in provider order, each once and none of an
\* unchecked row, whatever the focus is.
C2_EnterSelected ==
    event = "Enter" =>
        LET n == Cardinality({i \in 1..NumFiles : checked[i]})
        IN /\ result.tag = "Files"
           /\ Len(result.files) = n
           /\ \A j \in 1..n : result.files[j] = options[NthChecked(j)].file_name
           /\ \A j, k \in 1..n : j # k => result.files[j] # result.files[k]
           /\ \A j \in 1..n : \A i \in 1..NumFiles :
                 options[i].file_name = result.files[j] => checked[i]

C2_Witness ==
    /\ event = "Enter"
    /\ NumFiles = 3
    /\ checked = <<TRUE, FALSE, TRUE>>
    /\ focused_index = 2
    /\ result.files = <<2, 4>>

\* C3: the focused index is never below 0 nor above the number of files,
\* also when there are no files.
C3_FocusInRange == focused_index >= 0 /\ focused_index <= NumFiles

C3_Witness ==
    /\ event = "Down"
    /\ NumFiles >= 2
    /\ pre.focused_index = NumFiles
    /\ focused_index = NumFiles

\* C4: Space at focus 0 checks every row when some row is unchecked and
\* unchecks every row when all are checked; a second Space at focus 0 after
\* one that started with some row unchecked leaves every row unchecked; the
\* focus stays 0.
C4_ToggleAll ==
    (event = "Space" /\ pre.focused_index = 0) =>
        /\ Len(checked) = Len(pre.checked)
        /\ Unchecked(pre.checked) => All(checked)
        /\ All(pre.checked) => NoneChecked(checked)
        /\ focused_index = 0
        /\ (pre.event = "Space" /\ pre.focus0 = 0 /\ Unchecked(pre.checked0)) =>
               All(pre.checked) /\ NoneChecked(checked)

C4_Witness ==
    /\ event = "Space"
    /\ pre.focused_index = 0
    /\ pre.event = "Space"
    /\ pre.focus0 = 0
    /\ Unchecked(pre.checked0)
    /\ ~NoneChecked(pre.checked0)
    /\ NoneChecked(checked)

\* C5: Space at focus r in 1..N negates checked[r] and leaves every other
\* flag, the focus and the file list as they were.
C5_ToggleOne ==
    (event = "Space" /\ pre.focused_index >= 1 /\ pre.focused_index <= NumFiles) =>
        /\ Len(checked) = Len(pre.checked)
        /\ \A i \in 1..Len(checked) :
              checked[i] = IF i = pre.focused_index
                           THEN ~pre.checked[i]
                           ELSE pre.checked[i]
        /\ focused_index = pre.focused_index
        /\ options = GitStatus(Len(pre.checked))

C5_Witness ==
    /\ event = "Space"
    /\ pre.focused_index = 2
    /\ NumFiles = 3
    /\ checked = <<TRUE, FALSE, TRUE>>

\* C6: Up sets the focus to max(focus - 1, 0), Down sets it to
\* min(focus + 1, N); neither changes a checked flag.
C6_UpDown ==
    /\ event = "Up" =>
          /\ focused_index = Max2(pre.focused_index - 1, 0)
          /\ checked = pre.checked
    /\ event = "Down" =>
          /\ focused_index =
                IF pre.focused_index + 1 <= NumFiles
                THEN pre.focused_index + 1
                ELSE NumFiles
          /\ checked = pre.checked

\* C7: from an interior focus f, 0 < f < N, Up then Down and Down then Up
\* both end at focus f with the flags they started from.
C7_RoundTrip ==
    (/\ pre.focus0 > 0
     /\ pre.focus0 < NumFiles
     /\ \/ pre.event = "Up" /\ event = "Down"
        \/ pre.event = "Down" /\ event = "Up") =>
        /\ focused_index = pre.focus0
        /\ checked = pre.checked0

\* C8: an event no arm names changes no flag and not the focus, leaves the
\* prompt running, appends no line to the pending frame, and is followed by
\* no render and no flush.
C8_OtherNoOp ==
    event \in OtherEvents =>
        /\ checked = pre.checked
        /\ focused_index = pre.focused_index
        /\ result = Running
        /\ buffer = pre.buffer
        /\ terminal = pre.terminal
        /\ nflush = pre.nflush
        /\ ndiff = pre.ndiff

C8_Witness ==
    /\ event \in OtherEvents
    /\ focused_index = 1
    /\ Unchecked(checked)
    /\ ~NoneChecked(checked)
    /\ nflush = 3

\* The number of operations render() computed for line i.
OpsAt(ops, i) == Cardinality({k \in 1..Len(ops) : ops[k].line = i})

\* The operation render() computed for line i, when there is one.
OpAt(ops, i) == ops[CHOOSE k \in 1..Len(ops) : ops[k].line = i]

TextA == TextLine(1)

TextB == TextLine(2)

\* C9: after render() and flush() the terminal shows the lines of the frame
\* that was pending, every position below it is blank, and the cursor is at
\* the last position given to set_next_cursor, whatever the previous frame.
C9_RenderFlush ==
    event = "flush" =>
        LET frame == pre.buffer.pending
        IN /\ Len(terminal.lines) >= Len(frame)
           /\ \A i \in 1..Len(terminal.lines) :
                 terminal.lines[i] = IF i <= Len(frame) THEN frame[i] ELSE Blank
           /\ terminal.cursor = target

C9_Witness ==
    /\ event = "flush"
    /\ nflush = 2
    /\ Len(pre.buffer.pending) = 2
    /\ Len(pre.buffer.previous) = 4
    /\ pre.buffer.pending = <<TextB, TextA>>
    /\ terminal.lines = <<TextB, TextA, Blank, Blank>>
    /\ target = <<0, 1>>
    /\ terminal.cursor = <<0, 1>>

\* C10: render() computes, for each line index, one overwrite when the
\* index is in both frames and the lines differ, nothing when they are the
\* same, one append when the index is only in pending, and one clear when it
\* is only in previous; in line order, and nothing else.
C10_MinimalDiff ==
    event = "render_frame" =>
        LET prev == pre.buffer.previous
            pend == pre.buffer.pending
            ops  == buffer.ops
        IN /\ \A k \in 1..Len(ops) : ops[k].line \in 1..Max2(Len(prev), Len(pend))
           /\ \A k \in 1..Len(ops) - 1 : ops[k].line < ops[k + 1].line
           /\ \A i \in 1..Max2(Len(prev), Len(pend)) :
                 IF i <= Len(prev) /\ i <= Len(pend)
                 THEN IF prev[i] = pend[i]
                      THEN OpsAt(ops, i) = 0
                      ELSE /\ OpsAt(ops, i) = 1
                           /\ OpAt(ops, i).op = "overwrite"
                           /\ OpAt(ops, i).text = pend[i]
                 ELSE IF i <= Len(pend)
                      THEN /\ OpsAt(ops, i) = 1
                           /\ OpAt(ops, i).op = "append"
                           /\ OpAt(ops, i).text = pend[i]
                      ELSE /\ OpsAt(ops, i) = 1
                           /\ OpAt(ops, i).op = "clear"
           /\ buffer.previous = prev
           /\ buffer.pending = pend

C10_Witness ==
    /\ event = "render_frame"
    /\ pre.buffer.previous = <<TextA, TextB, TextA>>
    /\ pre.buffer.pending = <<TextA, TextA, TextA, TextB>>
    /\ buffer.ops = << [op |-> "overwrite", line |-> 2, text |-> TextA],
                       [op |-> "append", line |-> 4, text |-> TextB] >>

\* The frame the prompt flushed last: flush() made it the previous frame.
Frame == buffer.previous

IsRow(l) == l.kind = "row"

IsMore(l) == l.kind = "more"

\* The row lines and the summary lines of the frame, in frame order.
FrameRows == SelectSeq(Frame, IsRow)

FrameMore == SelectSeq(Frame, IsMore)

\* The number of lines of the frame above its first row line.
RowsTop == Len(Frame) - Len(FrameRows) - Len(FrameMore)

\* C11: with more than 15 files the frame holds the select-all row, then
\* the first 12 files in provider order, then one line "and K more" with
\* K = N - 12, which is the frame's last line; with at most 15 files it
\* holds the select-all row and all N files and no summary line.  With 20
\* files K is 8.
C11_CapRows ==
    (nflush > 0 /\ result = Running) =>
        /\ Len(FrameRows) >= 1
        /\ FrameRows[1].n = 0
        /\ \A i \in 1..Len(Frame) :
              /\ IsRow(Frame[i]) = (RowsTop < i /\ i <= RowsTop + Len(FrameRows))
              /\ IsMore(Frame[i]) = (i > RowsTop + Len(FrameRows))
        /\ IF NumFiles > 15
           THEN /\ Len(FrameRows) = 1 + 12
                /\ \A i \in 1..12 : FrameRows[i + 1].n = options[i].file_name
                /\ Len(FrameMore) = 1
                /\ FrameMore[1].n = NumFiles - 12
           ELSE /\ Len(FrameRows) = 1 + NumFiles
                /\ \A i \in 1..NumFiles : FrameRows[i + 1].n = options[i].file_name
                /\ FrameMore = <<>>
        /\ NumFiles = 20 => Len(FrameMore) = 1 /\ FrameMore[1].n = 8

C11_Witness ==
    /\ NumFiles = 20
    /\ event = "Down"
    /\ focused_index = 3
    /\ Len(FrameRows) = 13
    /\ FrameRows[13].n = options[12].file_name
    /\ Frame[Len(Frame)] = Line("more", 8, FALSE, "none", " ")

\* C12: the row lines of a frame (the select-all row, the files shown and
\* the summary line) are never more than 15, whatever the number of files.
C12_RowsWithinCap ==
    (nflush > 0 /\ result = Running) => Len(FrameRows) + Len(FrameMore) <= 15

\* C13: 'd' calls the diff viewer once, with no file at focus 0 and with
\* the one file name of the focused row otherwise; whether the call succeeds
\* or fails, the flags and the focus are as before, the prompt is still
\* running, and one more frame was flushed.
C13_DiffViewer ==
    event = "d" =>
        /\ ndiff = pre.ndiff + 1
        /\ diff_call.files =
              IF pre.focused_index = 0
              THEN <<>>
              ELSE << options[pre.focused_index].file_name >>
        /\ checked = pre.checked
        /\ focused_index = pre.focused_index
        /\ result = Running
        /\ nflush = pre.nflush + 1
        /\ Frame # <<>>
        /\ buffer.pending = <<>>
        /\ terminal.lines = Frame

C13_Witness ==
    /\ event = "d"
    /\ ~diff_call.ok
    /\ pre.focused_index = 2
    /\ diff_call.files = << 1 >>
    /\ checked = <<FALSE, TRUE, FALSE>>
    /\ result = Running
    /\ ndiff = 2

\* C14: for a pending frame shorter than the previous one render() computes
\* a clear for every line only the previous frame has, and flush() deletes
\* no line position; so at any time, after any frames of any lengths, every
\* terminal line below the last line of the frame shown is blank.
C14_ShrinkBlanks ==
    /\ Len(terminal.lines) >= Len(Frame)
    /\ \A i \in (Len(Frame) + 1)..Len(terminal.lines) : terminal.lines[i] = Blank
    /\ event = "render_frame" =>
          \A i \in (Len(pre.buffer.pending) + 1)..Len(pre.buffer.previous) :
              /\ OpsAt(buffer.ops, i) = 1
              /\ OpAt(buffer.ops, i).op = "clear"
    /\ event = "flush" => Len(terminal.lines) >= Len(pre.terminal.lines)

C14_Witness ==
    /\ event = "flush"
    /\ nflush = 3
    /\ Len(pre.buffer.previous) = 2
    /\ Frame = << TextB >>
    /\ terminal.lines = << TextB, Blank, Blank, Blank >>

IsFiglet(l) == l.kind = "figlet"

\* The number of select-all rows in the frame.
AllRows == Cardinality({i \in 1..Len(Frame) : IsRow(Frame[i]) /\ Frame[i].n = 0})

\* C15: after every flush of the prompt the pending frame is empty, so the
\* next cycle's line count starts at 0 without a begin(); and the frame
\* flush() kept as previous holds the lines of one cycle only: one banner,
\* one instruction block, one select-all row, and the rows with the flags
\* the prompt has now; the terminal shows that frame.
C15_FlushPromotes ==
    /\ buffer.pending = <<>>
    /\ lines(buffer) = 0
    /\ (nflush > 0 /\ result = Running) =>
          /\ Len(SelectSeq(Frame, IsFiglet)) = FigletHeight
          /\ RowsTop = FigletHeight + 3
          /\ \A i \in 1..FigletHeight : Frame[i] = header[i]
          /\ AllRows = 1
          /\ Len(Frame) = RowsTop + Len(FrameRows) + Len(FrameMore)
          /\ FrameRows[1].checked = All(checked)
          /\ \A i \in 1..(Len(FrameRows) - 1) : FrameRows[i + 1].checked = checked[i]
          /\ terminal.lines = Frame

C15_Witness ==
    /\ event = "Space"
    /\ nflush = 4
    /\ NumFiles = 3
    /\ checked = <<FALSE, TRUE, TRUE>>
    /\ Len(Frame) = FigletHeight + 3 + 4
    /\ FrameRows[3].checked
    /\ buffer.pending = <<>>

\* The banner lines and the instruction lines of the frame: the lines that
\* are neither rows nor the summary.
BannerHeight == Len(SelectSeq(Frame, IsFiglet))

IsInstruction(l) == ~IsFiglet(l) /\ ~IsRow(l) /\ ~IsMore(l)

InstructionHeight == Len(SelectSeq(Frame, IsInstruction))

\* C16: in every frame the prompt flushed, the cursor target is column 0
\* and row = banner height + instruction block height + focused index, the
\* heights being those of the lines the frame has above its first row; the
\* terminal's cursor is there.
C16_CursorRow ==
    (nflush > 0 /\ result = Running) =>
        /\ \A i \in 1..(BannerHeight + InstructionHeight) : ~IsRow(Frame[i])
        /\ IsRow(Frame[BannerHeight + InstructionHeight + 1])
        /\ target = <<0, BannerHeight + InstructionHeight + focused_index>>
        /\ terminal.cursor = target

C16_Witness ==
    /\ event = "Down"
    /\ focused_index = 3
    /\ BannerHeight = FigletHeight
    /\ InstructionHeight = 3
    /\ target = <<0, FigletHeight + 3 + 3>>
    /\ terminal.cursor = target

\* C17: the first frame, all rows unchecked and the focus on row 0, is
\* flushed before any event is read; each Space, 'd', Up and Down read is
\* followed by exactly one flush, also when it changed nothing; Enter, Esc,
\* Ctrl-C and the events no arm names are followed by none.  The flushes of a
\* run are 1 plus the Space, 'd', Up and Down events read.
C17_FlushCount ==
    /\ first_iteration => nflush = 0 /\ nevents = 0
    /\ ~first_iteration => nflush = 1 + nredraw
    /\ event = "None" =>
          /\ nflush = 1
          /\ nevents = 0
          /\ \A i \in 1..Len(FrameRows) : ~FrameRows[i].checked \/ NumFiles = 0
          /\ FrameRows[1].color = "Blue"
          /\ target = <<0, RowsTop>>
    /\ event \in {"Space", "d", "Up", "Down"} =>
          /\ nflush = pre.nflush + 1
          /\ terminal.lines = Frame
    /\ event \in {"Enter", "Esc", "CtrlC", "Char_x", "Mouse"} =>
          /\ nflush = pre.nflush
          /\ buffer = pre.buffer
          /\ terminal = pre.terminal

C17_Witness ==
    /\ event = "Up"
    /\ pre.focused_index = 0
    /\ pre.event = "Char_x"
    /\ focused_index = 0
    /\ checked = pre.checked
    /\ nevents = 4
    /\ nredraw = 2
    /\ nflush = 3

Returned == result.tag \in {"Terminate", "Escape", "Files"}

\* C18: once the loop reads events, with an input source that goes on to
\* deliver Ctrl-C, Enter or Esc, run() eventually returns; the read of one
\* of the three is the only step that ends it, and it always does: a run
\* that has read none of them is running, whatever it has read and however
\* long the source yields nothing.
C18_Termination ==
    /\ ~first_iteration ~> Returned
    /\ [](event \in {"CtrlC", "Enter", "Esc"} => Returned)
    /\ [](event \notin {"CtrlC", "Enter", "Esc"} => result = Running)
    /\ [][(result = Running /\ result' # Running) =>
             (event' \in {"CtrlC", "Enter", "Esc"} /\ nevents' = nevents + 1)]_vars

C18_Witness ==
    /\ result = Escape
    /\ event = "Esc"
    /\ nevents = MaxEvents + 1
    /\ pre.event = "d"
    /\ ndiff >= 2
    /\ nredraw = MaxEvents

\* C19: there are as many flags as files at any time; the focus is at
\* most N, so the flag Space negates and the file 'd' looks up at a focus
\* above 0 exist and neither arm panics; and a frame draws no row past the
\* last file.
C19_IndexInRange ==
    /\ Len(checked) = NumFiles
    /\ focused_index - 1 < NumFiles
    /\ result.tag # "Panic"
    /\ (event \in {"Space", "d"} /\ pre.focused_index > 0) =>
          /\ pre.focused_index - 1 < Len(pre.checked)
          /\ result = Running
          /\ event = "d" => Len(diff_call.files) = 1
    /\ nflush > 0 => Len(FrameRows) - 1 <= NumFiles

C19_Witness ==
    /\ event = "Space"
    /\ NumFiles = 3
    /\ pre.focused_index = 3
    /\ pre.event = "Down"
    /\ pre.focus0 = 3
    /\ checked = <<FALSE, FALSE, TRUE>>

\* The row lines of the frame drawn in the focused colour.
FocusedRows == {i \in 1..Len(Frame) : IsRow(Frame[i]) /\ Frame[i].color = "Blue"}

\* C20: in every frame the prompt flushed exactly one row line is in the
\* focused colour, and the cursor target row is the position of that line in
\* the frame: not the summary line, and not below the frame's last line.
C20_FocusedRowShown ==
    (nflush > 0 /\ result = Running) =>
        /\ Cardinality(FocusedRows) = 1
        /\ target[2] + 1 <= Len(Frame)
        /\ target[2] + 1 \in FocusedRows

====
